---- MODULE Spec2Model ----
(***************************************************************************)
(* Model of the glusterfs simple provisioner (pkg/volume/provision.go):    *)
(* Provision and Delete, the create pipeline with its rollback, and the    *)
(* best-effort teardown, against an abstract remote command transport, an  *)
(* abstract object store and an abstract numeric-id allocator.             *)
(*                                                                         *)
(* Every blocking external call is one step, and the outcome of each       *)
(* external call is chosen by the environment.  Spec runs the calls one    *)
(* after the other; SpecConc runs two calls at a time, each a goroutine    *)
(* of the controller, with a switch between them possible at every step.   *)
(***************************************************************************)
EXTENDS Naturals, Sequences, FiniteSets, TLC

VARIABLES
    pc,         \* position of the call in flight ("idle" when there is none)
    entry,      \* "Provision" | "Delete" | "none": the entry point in flight
    options,    \* the ProvisionOptions of the call in flight (Provision)
    volume,     \* the PersistentVolume handed to Delete
    cfg,        \* the resolved *ProvisionerConfig
    gid,        \* the gid AllocateNext returned (0: none)
    idx,        \* loop index of createBricks / deleteBricks
    bricks,     \* createBricks' result so far
    err,        \* createVolume's err
    dvErr,      \* deleteVolume's err after deleteEndpointService
    ret,        \* what the entry point returned
    log,        \* the external calls the call in flight has issued, in order
    made,       \* the remote resources the call in flight created
    dirs,       \* remote hosts: the directories that exist, <<host, path>>
    volumes,    \* the cluster: volume name -> "created" | "started"
    endpoints,  \* object store: the Endpoints objects
    services,   \* object store: the Service objects
    gids,       \* the allocator: the ids it holds as allocated
    pvs,        \* the descriptors the caller keeps (returned by Provision)
    ncalls,     \* the number of calls started
    client,     \* glusterfsProvisioner.client: the object-store client
    parked,     \* the local state of the call that is not running
    cur         \* which of the two calls is running: 1 or 2

vars == <<pc, entry, options, volume, cfg, gid, idx, bricks, err, dvErr, ret,
          log, made, dirs, volumes, endpoints, services, gids, pvs, ncalls,
          client, parked, cur>>

worldVars == <<dirs, volumes, endpoints, services, gids, pvs>>

----------------------------------------------------------------------------
(* Bounds *)

MaxCalls == 2
MaxHosts == 2
MaxGids == 2

----------------------------------------------------------------------------
(* Constants of the program *)

annCreatedBy == "kubernetes.io/createdby"
createdBy == "glusterfs-simple-provisioner"
dynamicEpSvcPrefix == "glusterfs-simple-"

Nil == "nil"
ProvisioningFinished == "ProvisioningFinished"

----------------------------------------------------------------------------
(* Inputs *)

HostNames == <<"h1", "h2", "h3", "h4">>

\* The brick roots a storage class names: k hosts, each with the root /data.
Roots(k) == [i \in 1..k |-> [Host |-> HostNames[i], Path |-> "/data"]]

\* Storage-class parameters: the brick roots, the volume type, the force
\* flag, and whether the raw map is well formed.
Parameters ==
    { [brickrootpaths |-> Roots(k), volumetype |-> "replicate",
       forcecreate |-> f, wellformed |-> w] :
         k \in 0..MaxHosts, f \in BOOLEAN, w \in BOOLEAN }

\* The parameter sets the model draws from: every host count, the force flag
\* set for the largest only, one malformed map, one map with no brick roots.
ClassParameters ==
    { p \in Parameters :
        \/ p.wellformed /\ Len(p.brickrootpaths) >= 1
             /\ (p.forcecreate <=> Len(p.brickrootpaths) = MaxHosts)
        \/ ~p.wellformed /\ Len(p.brickrootpaths) = 1 /\ ~p.forcecreate
        \/ p.wellformed /\ Len(p.brickrootpaths) = 0 /\ ~p.forcecreate }

\* The claims: (namespace, claim name, PV name).  The third differs from the
\* first in its claim name and in its PV name, and the two names joined by
\* "-" read the same as those of the first.
Claims ==
    { [Namespace |-> "ns1", Name |-> "pvc-a", PVName |-> "vol1"],
      [Namespace |-> "ns1", Name |-> "pvc-b", PVName |-> "vol2"],
      [Namespace |-> "ns1", Name |-> "pvc", PVName |-> "a-vol1"] }

AllProvisionOptions ==
    { [PVC |-> [Namespace |-> c.Namespace, Name |-> c.Name, Selector |-> s],
       PVName |-> c.PVName,
       Parameters |-> p] :
         c \in Claims, s \in BOOLEAN, p \in ClassParameters }

\* The requests the model draws: every request for the first claim; for the
\* other claims the requests of the one-host class that carry no selector.
\* The third claim is one that only the second of two goroutines works for.
ProvisionOptionsSet ==
    { o \in AllProvisionOptions :
        /\ o.PVC.Name # "pvc-a" =>
              ~o.PVC.Selector /\ o.Parameters.wellformed
                /\ Len(o.Parameters.brickrootpaths) = 1
        /\ o.PVC.Name = "pvc" => cur = 2 }

\* The zero values.  A nil pointer is a record of the same shape that says so.
NoParameters == [brickrootpaths |-> <<>>, volumetype |-> "",
                 forcecreate |-> FALSE, wellformed |-> FALSE]
NilRef == [IsNil |-> TRUE, Namespace |-> "", Name |-> ""]
NilPV == [Name |-> "",
          Annotations |-> [createdby |-> "", gid |-> ""],
          Glusterfs |-> [EndpointsName |-> "", Path |-> "", ReadOnly |-> FALSE]]
NoOptions == [PVC |-> [Namespace |-> "", Name |-> "", Selector |-> FALSE],
              PVName |-> "", Parameters |-> NoParameters]
NoVolume == [Name |-> "", Gid |-> 0, EndpointsName |-> "", Path |-> "",
             ClaimRef |-> NilRef, Parameters |-> NoParameters,
             ClassFound |-> FALSE]
NoCfg == [BrickRootPaths |-> <<>>, VolumeName |-> "", VolumeType |-> "",
          ForceCreate |-> FALSE]
NoRet == [pv |-> NilPV, state |-> "", err |-> Nil]

----------------------------------------------------------------------------
(* Pure functions *)

\* strings.Join(elems, sep)
RECURSIVE stringsJoin(_, _)
stringsJoin(elems, sep) ==
    IF Len(elems) = 0 THEN ""
    ELSE IF Len(elems) = 1 THEN elems[1]
    ELSE elems[1] \o sep \o stringsJoin(Tail(elems), sep)

\* filepath.Join(elems...): empty elements are ignored, the rest joined by
\* the separator (the elements the model draws are clean already).
filepathJoin(elems) ==
    stringsJoin(SelectSeq(elems, LAMBDA e : e # ""), "/")

\* createBricks / deleteBricks: brickName
brickName(pvcName, c) == stringsJoin(<<pvcName, c.VolumeName>>, "-")

\* createBricks: the brick path on one root
createBrickPath(root, namespace, pvcName, c) ==
    filepathJoin(<<root.Path, namespace, brickName(pvcName, c)>>)

\* Variant of deleteBrickPath: the namespace is left out of the path.
deleteBrickPath_NoNamespace(root, namespace, pvcName, c) ==
    filepathJoin(<<root.Path, brickName(pvcName, c)>>)

\* deleteBricks: the brick path on one root
deleteBrickPath(root, namespace, pvcName, c) ==
    filepathJoin(<<root.Path, namespace, brickName(pvcName, c)>>)

\* createBricks: the command batch for one brick
createBricksCmds(path, g) ==
    << "mkdir -p " \o path,
       "chown :" \o ToString(g) \o " " \o path,
       "chmod 0771 " \o path >>

\* deleteBricks: the command batch for one brick
deleteBricksCmds(path) == << "rm -rf " \o path >>

\* createGlusterVolume: the bricks as " host:path ..."
RECURSIVE brickArgs(_)
brickArgs(bs) ==
    IF Len(bs) = 0 THEN ""
    ELSE " " \o bs[1].Host \o ":" \o bs[1].Path \o brickArgs(Tail(bs))

\* Variant of createGlusterVolumeCmds: the force flag is always appended.
createGlusterVolumeCmds_AlwaysForce(bs, c) ==
    << "gluster --mode=script volume create " \o c.VolumeName \o " "
          \o c.VolumeType \o brickArgs(bs) \o " force",
       "gluster --mode=script volume start " \o c.VolumeName >>

\* createGlusterVolume: the command batch
createGlusterVolumeCmds(bs, c) ==
    << "gluster --mode=script volume create " \o c.VolumeName \o " "
          \o c.VolumeType \o brickArgs(bs)
          \o (IF c.ForceCreate THEN " force" ELSE ""),
       "gluster --mode=script volume start " \o c.VolumeName >>

\* createGlusterVolume: the host the batch is sent to
createGlusterVolumeHost(bs) == bs[1].Host

\* deleteGlusterVolume: the two batches and their host
deleteGlusterVolumeStopCmds(c) ==
    << "gluster --mode=script volume stop " \o c.VolumeName \o " force" >>
deleteGlusterVolumeDeleteCmds(c) ==
    << "gluster --mode=script volume delete " \o c.VolumeName >>

\* Variant of deleteGlusterVolumeHost: the host of the last brick root.
deleteGlusterVolumeHost_LastRoot(c) ==
    c.BrickRootPaths[Len(c.BrickRootPaths)].Host

deleteGlusterVolumeHost(c) == c.BrickRootPaths[1].Host

\* getClusterNodes
getClusterNodes(c) ==
    [i \in 1..Len(c.BrickRootPaths) |-> c.BrickRootPaths[i].Host]

\* Variant of createEpServiceName: one name for the objects of every claim.
createEpServiceName_Shared(name) == dynamicEpSvcPrefix \o "cluster"

\* createVolume / deleteVolume: the name of the exposure objects
createEpServiceName(name) == dynamicEpSvcPrefix \o name
deleteEpServiceName(name) == dynamicEpSvcPrefix \o name

\* NewProvisionerConfig(pvName, params): the configuration, or an error when
\* the map is malformed or names no brick root.
NewProvisionerConfigErr(params) ==
    IF ~params.wellformed \/ Len(params.brickrootpaths) = 0
    THEN "ConfigError" ELSE Nil
NewProvisionerConfig(pvName, params) ==
    [BrickRootPaths |-> params.brickrootpaths,
     VolumeName |-> pvName,
     VolumeType |-> params.volumetype,
     ForceCreate |-> params.forcecreate]

----------------------------------------------------------------------------
(* The collaborators *)

\* The object-store client the provisioner holds (p.client).
kubeClient == client

\* ExecuteCommands(host, cmds): the commands run in order and the batch stops
\* at the first that fails.  failAt is the environment's choice: 0 when every
\* command succeeds, else the position of the command that fails.
ExecuteCommands(cmds, failAt) ==
    IF failAt = 0 THEN Nil ELSE "RemoteCommandError"

\* The number of commands of the batch that took effect on the host.
Succeeded(cmds, failAt) == IF failAt = 0 THEN Len(cmds) ELSE failAt - 1

NoObj == [Namespace |-> "", Name |-> "", Label |-> "", Addresses |-> <<>>]

\* One entry of the log: a command batch handed to ExecuteCommands.
ExecEntry(site, host, cmds, failAt) ==
    [kind |-> "exec", site |-> site, host |-> host, cmds |-> cmds,
     obj |-> NoObj, res |-> IF failAt = 0 THEN "ok" ELSE "failed",
     failAt |-> failAt]

\* One entry of the log: a call to the object store or to the allocator.
CallEntry(kind, site, obj, res) ==
    [kind |-> kind, site |-> site, host |-> "", cmds |-> <<>>,
     obj |-> obj, res |-> res, failAt |-> 0]

\* Objects are keyed by namespace and name.
Key(o) == <<o.Namespace, o.Name>>
Exists(store, ns, name) == \E o \in store : Key(o) = <<ns, name>>

\* Create on the object store: an object of the same key makes it answer
\* AlreadyExists; "Other" is any other failure the environment injects.
StoreCreate(store, obj, fail) ==
    IF fail THEN "Other"
    ELSE IF Exists(store, obj.Namespace, obj.Name) THEN "AlreadyExists"
    ELSE "ok"

\* Delete on the object store: NotFound when no object has the key.
StoreDelete(store, ns, name, fail) ==
    IF fail THEN "Other"
    ELSE IF Exists(store, ns, name) THEN "ok"
    ELSE "NotFound"

\* errors.IsAlreadyExists
IsAlreadyExists(res) == res = "AlreadyExists"

\* The allocator: the lowest id of its range that it does not hold.
FreeGids == (1..MaxGids) \ gids
NextGid == CHOOSE g \in FreeGids : \A h \in FreeGids : g <= h

\* The remote resources, as the elements of made.
Dir(host, path) == [kind |-> "dir", where |-> host, name |-> path]
Vol(name) == [kind |-> "volume", where |-> "", name |-> name]
Ep(ns, name) == [kind |-> "endpoints", where |-> ns, name |-> name]
Svc(ns, name) == [kind |-> "service", where |-> ns, name |-> name]

\* Whether a remote resource exists.
Present(r) ==
    CASE r.kind = "dir" -> <<r.where, r.name>> \in dirs
      [] r.kind = "volume" -> r.name \in DOMAIN volumes
      [] r.kind = "endpoints" -> Exists(endpoints, r.where, r.name)
      [] r.kind = "service" -> Exists(services, r.where, r.name)

----------------------------------------------------------------------------
(* Init *)

\* The local state of a call: the variables of one goroutine.
Locals ==
    [pc |-> pc, entry |-> entry, options |-> options, volume |-> volume,
     cfg |-> cfg, gid |-> gid, idx |-> idx, bricks |-> bricks, err |-> err,
     dvErr |-> dvErr, ret |-> ret, log |-> log, made |-> made]

\* The local state when no call was made yet.
NoCall ==
    [pc |-> "idle", entry |-> "none", options |-> NoOptions,
     volume |-> NoVolume, cfg |-> NoCfg, gid |-> 0, idx |-> 0,
     bricks |-> <<>>, err |-> Nil, dvErr |-> Nil, ret |-> NoRet,
     log |-> <<>>, made |-> {}]

\* No call was made yet.
NoCallYet ==
    /\ pc = "idle"
    /\ entry = "none"
    /\ options = NoOptions
    /\ volume = NoVolume
    /\ cfg = NoCfg
    /\ gid = 0
    /\ idx = 0
    /\ bricks = <<>>
    /\ err = Nil
    /\ dvErr = Nil
    /\ ret = NoRet
    /\ log = <<>>
    /\ made = {}
    /\ parked = NoCall
    /\ cur = 1
    /\ ncalls = 0

\* No call was made yet, and nothing exists on the hosts, in the cluster, in
\* the object store or in the allocator.
NothingYet ==
    /\ NoCallYet
    /\ dirs = {}
    /\ volumes = <<>>
    /\ endpoints = {}
    /\ services = {}
    /\ gids = {}
    /\ pvs = {}

\* newGlusterfsProvisionerInternal: the provisioner holds the client it was
\* constructed with; the constructor calls client.CoreV1(), so the client is
\* not nil.
Init ==
    /\ NothingYet
    /\ client = "client"

----------------------------------------------------------------------------
(* Provision *)

\* Variant of SelectorRejected: the selector is not looked at.
SelectorRejected_Never(o) == FALSE

\* Provision, lines 80-82: whether the request is rejected for its selector.
SelectorRejected(o) == o.PVC.Selector

\* Provision's return on an error.
ProvisionError(e) == [pv |-> NilPV, state |-> ProvisioningFinished, err |-> e]

\* Provision: the entry, up to the call of AllocateNext.
Provision ==
    /\ pc \in {"idle", "returned"}
    /\ ncalls < MaxCalls
    /\ \E o \in ProvisionOptionsSet :
         /\ options' = o
         /\ IF SelectorRejected(o)
            THEN /\ pc' = "returned"
                 /\ ret' = ProvisionError("claim Selector is not supported")
            ELSE /\ pc' = "AllocateNext"
                 /\ ret' = NoRet
    /\ entry' = "Provision"
    /\ volume' = NoVolume
    /\ cfg' = NoCfg
    /\ gid' = 0
    /\ idx' = 0
    /\ bricks' = <<>>
    /\ err' = Nil
    /\ log' = <<>>
    /\ made' = {}
    /\ ncalls' = ncalls + 1
    /\ UNCHANGED worldVars
    /\ dvErr' = Nil
    /\ UNCHANGED <<client, parked, cur>>

\* Provision, lines 85-88: p.allocator.AllocateNext(options).
AllocateNext ==
    /\ pc = "AllocateNext"
    /\ \E ok \in BOOLEAN :
         IF ok /\ FreeGids # {}
         THEN /\ gid' = NextGid
              /\ gids' = gids \cup {NextGid}
              /\ log' = Append(log, CallEntry("AllocateNext", "Provision", NoObj, "ok"))
              /\ pc' = "NewProvisionerConfig"
              /\ ret' = ret
         ELSE /\ gid' = 0
              /\ gids' = gids
              /\ log' = Append(log, CallEntry("AllocateNext", "Provision", NoObj, "failed"))
              /\ pc' = "returned"
              /\ ret' = ProvisionError("AllocatorError")
    /\ UNCHANGED <<entry, options, volume, cfg, idx, bricks, err, made,
                   dirs, volumes, endpoints, services, pvs, ncalls>>
    /\ UNCHANGED <<dvErr, client, parked, cur>>

\* Provision, lines 90-96: NewProvisionerConfig(options.PVName, parameters).
ResolveConfig ==
    /\ pc = "NewProvisionerConfig"
    /\ IF NewProvisionerConfigErr(options.Parameters) # Nil
       THEN /\ pc' = "returned"
            /\ ret' = ProvisionError("Parameter is invalid")
            /\ UNCHANGED <<cfg, idx>>
       ELSE /\ cfg' = NewProvisionerConfig(options.PVName, options.Parameters)
            /\ pc' = "createBricks"
            /\ idx' = 1
            /\ ret' = ret
    /\ UNCHANGED <<entry, options, volume, gid, bricks, err, log, made,
                   ncalls>>
    /\ UNCHANGED worldVars
    /\ UNCHANGED <<dvErr, client, parked, cur>>

----------------------------------------------------------------------------
(* createVolume: the create pipeline *)

\* Variant of createVolumeNext: a failed stage returns without the teardown.
createVolumeNext_NoRollback(e, next) == IF e = Nil THEN next ELSE "returned"

\* createVolume, lines 145-172: the stage that follows one that ended with e.
\* A stage runs only while err is nil; otherwise control goes to deleteVolume.
createVolumeNext(e, next) == IF e = Nil THEN next ELSE "deleteGlusterVolume"

\* Variant of createBricksNext: a failed batch does not end the loop.
createBricksNext_KeepsGoing(e, i, n) ==
    IF i < n THEN "createBricks"
    ELSE createVolumeNext(e, "createGlusterVolume")

\* createBricks, lines 198-204: where the loop goes after the batch of root i.
createBricksNext(e, i, n) ==
    IF e # Nil THEN createVolumeNext(e, "createGlusterVolume")
    ELSE IF i < n THEN "createBricks"
    ELSE createVolumeNext(Nil, "createGlusterVolume")

\* createBricks: one turn of the loop, the batch for root idx.
createBricks ==
    /\ pc = "createBricks"
    /\ \E failAt \in 0..3 :
         LET root == cfg.BrickRootPaths[idx]
             host == root.Host
             path == createBrickPath(root, options.PVC.Namespace,
                                     options.PVC.Name, cfg)
             cmds == createBricksCmds(path, gid)
             e == ExecuteCommands(cmds, failAt)
             next == createBricksNext(e, idx, Len(cfg.BrickRootPaths))
         IN /\ log' = Append(log, ExecEntry("createBricks", host, cmds, failAt))
            /\ IF Succeeded(cmds, failAt) >= 1
               THEN /\ dirs' = dirs \cup {<<host, path>>}
                    /\ made' = IF <<host, path>> \in dirs THEN made
                               ELSE made \cup {Dir(host, path)}
               ELSE UNCHANGED <<dirs, made>>
            /\ bricks' = IF e # Nil THEN <<>>
                         ELSE Append(bricks, [Host |-> host, Path |-> path])
            /\ err' = e
            /\ pc' = next
            /\ idx' = IF next = "createBricks" THEN idx + 1 ELSE idx
    /\ UNCHANGED <<entry, options, volume, cfg, gid, ret, volumes, endpoints,
                   services, gids, pvs, ncalls>>
    /\ UNCHANGED <<dvErr, client, parked, cur>>

\* createGlusterVolume: the create-and-start batch on the first brick's host.
createGlusterVolume ==
    /\ pc = "createGlusterVolume"
    /\ \E failAt \in 0..2 :
         LET host == createGlusterVolumeHost(bricks)
             cmds == createGlusterVolumeCmds(bricks, cfg)
             e == ExecuteCommands(cmds, failAt)
             done == Succeeded(cmds, failAt)
         IN /\ log' = Append(log, ExecEntry("createGlusterVolume", host, cmds, failAt))
            /\ IF done >= 1
               THEN /\ volumes' = (cfg.VolumeName :>
                                     (IF done >= 2 THEN "started" ELSE "created"))
                                  @@ volumes
                    /\ made' = IF cfg.VolumeName \in DOMAIN volumes THEN made
                               ELSE made \cup {Vol(cfg.VolumeName)}
               ELSE UNCHANGED <<volumes, made>>
            /\ err' = e
            /\ pc' = createVolumeNext(e, "createEndpoints")
    /\ UNCHANGED <<entry, options, volume, cfg, gid, idx, bricks, ret, dirs,
                   endpoints, services, gids, pvs, ncalls>>
    /\ UNCHANGED <<dvErr, client, parked, cur>>

\* createEndpointService, lines 245-261: the Endpoints object.
NewEndpoints(namespace, epServiceName, hostips, pvcname) ==
    [Namespace |-> namespace, Name |-> epServiceName, Label |-> pvcname,
     Addresses |-> hostips]

\* createEndpointService, lines 275-285: the Service object.
NewService(namespace, epServiceName, pvcname) ==
    [Namespace |-> namespace, Name |-> epServiceName, Label |-> pvcname,
     Addresses |-> <<>>]

\* Variant of createErr: "already exists" is an error like any other.
createErr_NoSuppress(res, what) ==
    IF res = "ok" THEN Nil ELSE "error creating " \o what

\* createEndpointService, lines 267-274 and 287-294: the error a Create's
\* answer becomes.  AlreadyExists is no error.
createErr(res, what) ==
    IF res = "ok" \/ IsAlreadyExists(res) THEN Nil
    ELSE "error creating " \o what

\* createEndpointService, lines 271-275: an Endpoints error returns at once,
\* otherwise the Service is created next.
createEndpointServiceNext(e) ==
    IF e # Nil THEN createVolumeNext(e, "createService") ELSE "createService"

\* createEndpointService, lines 245-274: the Endpoints object is created.
createEndpoints ==
    /\ pc = "createEndpoints"
    /\ \E fail \in BOOLEAN :
         LET namespace == options.PVC.Namespace
             epServiceName == createEpServiceName(options.PVC.Name)
             obj == NewEndpoints(namespace, epServiceName,
                                 getClusterNodes(cfg), options.PVC.Name)
             res == IF kubeClient = Nil THEN "NoClient"
                    ELSE StoreCreate(endpoints, obj, fail)
             e == IF kubeClient = Nil
                  THEN "glusterfs: failed to get kube client"
                  ELSE createErr(res, "endpoint")
         IN /\ log' = IF kubeClient = Nil THEN log
                      ELSE Append(log, CallEntry("create_endpoints",
                                    "createEndpointService", obj, res))
            /\ IF res = "ok"
               THEN /\ endpoints' = endpoints \cup {obj}
                    /\ made' = made \cup {Ep(namespace, epServiceName)}
               ELSE UNCHANGED <<endpoints, made>>
            /\ err' = e
            /\ pc' = createEndpointServiceNext(e)
    /\ UNCHANGED <<entry, options, volume, cfg, gid, idx, bricks, ret, dirs,
                   volumes, services, gids, pvs, ncalls>>
    /\ UNCHANGED <<dvErr, client, parked, cur>>

\* Provision, lines 103-122: the PersistentVolume returned.  The reclaim
\* policy, access modes and capacity are copied from the request unchanged
\* and are left out.
NewPersistentVolume(o, c, g, epName) ==
    [Name |-> o.PVName,
     Annotations |-> [createdby |-> createdBy, gid |-> ToString(g)],
     Glusterfs |-> [EndpointsName |-> epName, Path |-> c.VolumeName,
                    ReadOnly |-> FALSE]]

\* What is kept of a successful Provision: the descriptor, with the claim
\* it is bound to and the parameters of its storage class; and, for the
\* properties, the bricks createBricks returned and the key the exposure
\* objects were published under.
Kept(pv, o, g, bs, epKey) ==
    [pv |-> pv, gid |-> g, claim |-> [Namespace |-> o.PVC.Namespace,
                                      Name |-> o.PVC.Name],
     Parameters |-> o.Parameters, bricks |-> bs, epKey |-> epKey]

\* createEndpointService, lines 275-295: the Service object is created; on
\* success createVolume returns the volume source and Provision the PV.
createService ==
    /\ pc = "createService"
    /\ \E fail \in BOOLEAN :
         LET namespace == options.PVC.Namespace
             epServiceName == createEpServiceName(options.PVC.Name)
             obj == NewService(namespace, epServiceName, options.PVC.Name)
             res == StoreCreate(services, obj, fail)
             e == createErr(res, "service")
             pv == NewPersistentVolume(options, cfg, gid, epServiceName)
         IN /\ log' = Append(log, CallEntry("create_service",
                               "createEndpointService", obj, res))
            /\ IF res = "ok"
               THEN /\ services' = services \cup {obj}
                    /\ made' = made \cup {Svc(namespace, epServiceName)}
               ELSE UNCHANGED <<services, made>>
            /\ err' = e
            /\ pc' = createVolumeNext(e, "returned")
            /\ IF pc' = "returned"
               THEN /\ ret' = [pv |-> pv, state |-> ProvisioningFinished,
                               err |-> Nil]
                    /\ pvs' = pvs \cup {Kept(pv, options, gid, bricks,
                                                 Key(obj))}
               ELSE UNCHANGED <<ret, pvs>>
    /\ UNCHANGED <<entry, options, volume, cfg, gid, idx, bricks, dirs,
                   volumes, endpoints, gids, ncalls>>
    /\ UNCHANGED <<dvErr, client, parked, cur>>

----------------------------------------------------------------------------
(* deleteVolume: the teardown, of Delete and of a failed create *)

\* The arguments deleteVolume is called with: lines 172 and 345.
tdNamespace ==
    IF entry = "Provision" THEN options.PVC.Namespace
    ELSE volume.ClaimRef.Namespace
tdName ==
    IF entry = "Provision" THEN options.PVC.Name ELSE volume.ClaimRef.Name

\* Variant of deleteGlusterVolumeNext: a failed stop ends the teardown of
\* the bricks too.
deleteGlusterVolumeNext_StopBlocks(e) ==
    IF e # Nil THEN "deleteEndpointService" ELSE "deleteGlusterVolumeDelete"

\* Variant of deleteGlusterVolumeNext: the delete follows the stop whatever
\* its outcome.
deleteGlusterVolumeNext_AlwaysDelete(e) == "deleteGlusterVolumeDelete"

\* deleteGlusterVolume, lines 387-398: the delete follows only a stop that
\* succeeded; deleteVolume goes on to deleteBricks either way.
deleteGlusterVolumeNext(e) ==
    IF e # Nil THEN "deleteBricks" ELSE "deleteGlusterVolumeDelete"

\* deleteGlusterVolume, lines 381-390: the forced stop on the first host.
deleteGlusterVolume ==
    /\ pc = "deleteGlusterVolume"
    /\ \E failAt \in 0..1 :
         LET host == deleteGlusterVolumeHost(cfg)
             cmds == deleteGlusterVolumeStopCmds(cfg)
             e == ExecuteCommands(cmds, failAt)
         IN /\ log' = Append(log, ExecEntry("deleteGlusterVolume", host, cmds, failAt))
            /\ volumes' = IF e = Nil /\ cfg.VolumeName \in DOMAIN volumes
                          THEN [volumes EXCEPT ![cfg.VolumeName] = "created"]
                          ELSE volumes
            /\ pc' = deleteGlusterVolumeNext(e)
    /\ idx' = 1
    /\ UNCHANGED <<entry, options, volume, cfg, gid, bricks, err, ret, made,
                   dirs, endpoints, services, gids, pvs, ncalls>>
    /\ UNCHANGED <<dvErr, client, parked, cur>>

\* deleteGlusterVolume, lines 391-398: the volume delete on the first host.
deleteGlusterVolumeDelete ==
    /\ pc = "deleteGlusterVolumeDelete"
    /\ \E failAt \in 0..1 :
         LET host == deleteGlusterVolumeHost(cfg)
             cmds == deleteGlusterVolumeDeleteCmds(cfg)
             e == ExecuteCommands(cmds, failAt)
         IN /\ log' = Append(log, ExecEntry("deleteGlusterVolume", host, cmds, failAt))
            /\ volumes' = IF e = Nil
                          THEN [n \in DOMAIN volumes \ {cfg.VolumeName} |->
                                  volumes[n]]
                          ELSE volumes
    /\ pc' = "deleteBricks"
    /\ UNCHANGED <<entry, options, volume, cfg, gid, idx, bricks, err, ret,
                   made, dirs, endpoints, services, gids, pvs, ncalls>>
    /\ UNCHANGED <<dvErr, client, parked, cur>>

\* Variant of deleteBricksNext: a failed remove ends the loop.
deleteBricksNext_AbortsOnError(e, i, n) ==
    IF e = Nil /\ i < n THEN "deleteBricks" ELSE "deleteEndpointService"

\* deleteBricks, lines 410-422: where the loop goes after the batch of root
\* i, whatever its outcome e.
deleteBricksNext(e, i, n) ==
    IF i < n THEN "deleteBricks" ELSE "deleteEndpointService"

\* deleteBricks: one turn of the loop, the recursive remove on root idx.
deleteBricks ==
    /\ pc = "deleteBricks"
    /\ \E failAt \in 0..1 :
         LET root == cfg.BrickRootPaths[idx]
             host == root.Host
             path == deleteBrickPath(root, tdNamespace, tdName, cfg)
             cmds == deleteBricksCmds(path)
             e == ExecuteCommands(cmds, failAt)
             next == deleteBricksNext(e, idx, Len(cfg.BrickRootPaths))
         IN /\ log' = Append(log, ExecEntry("deleteBricks", host, cmds, failAt))
            /\ dirs' = IF e = Nil THEN dirs \ {<<host, path>>} ELSE dirs
            /\ pc' = next
            /\ idx' = IF next = "deleteBricks" THEN idx + 1 ELSE idx
    /\ UNCHANGED <<entry, options, volume, cfg, gid, bricks, err, ret, made,
                   volumes, endpoints, services, gids, pvs, ncalls>>
    /\ UNCHANGED <<dvErr, client, parked, cur>>

\* deleteEndpointService, lines 425-437: the error it returns, whatever the
\* answer to the Service delete.  deleteVolume only logs it (lines 366-369).
deleteEndpointServiceErr(res) ==
    IF kubeClient = Nil THEN "glusterfs: failed to get kube client" ELSE Nil

\* deleteVolume's last step, deleteEndpointService (the Service is deleted,
\* the Endpoints object is not), and the return of deleteVolume to its
\* caller: createVolume returns err (line 173) and Provision returns it
\* (line 100); Delete goes on to release the gid (line 348).
deleteEndpointService ==
    /\ pc = "deleteEndpointService"
    /\ \E fail \in BOOLEAN :
         LET namespace == tdNamespace
             epServiceName == deleteEpServiceName(tdName)
             res == IF kubeClient = Nil THEN "NoClient"
                    ELSE StoreDelete(services, namespace, epServiceName, fail)
             key == [NoObj EXCEPT !.Namespace = namespace,
                                  !.Name = epServiceName]
         IN /\ log' = IF kubeClient = Nil THEN log
                      ELSE Append(log, CallEntry("delete_service",
                                    "deleteEndpointService", key, res))
            /\ dvErr' = deleteEndpointServiceErr(res)
            /\ services' =
                 IF res = "ok"
                 THEN {o \in services : Key(o) # <<namespace, epServiceName>>}
                 ELSE services
    /\ IF entry = "Provision"
       THEN /\ pc' = "returned"
            /\ ret' = ProvisionError(err)
       ELSE /\ pc' = "Release"
            /\ ret' = ret
    /\ UNCHANGED <<entry, options, volume, cfg, gid, idx, bricks, err, made,
                   dirs, volumes, endpoints, gids, pvs, ncalls>>
    /\ UNCHANGED <<client, parked, cur>>

----------------------------------------------------------------------------
(* Delete *)

\* The claim references a descriptor may carry when Delete is called: none,
\* one with an empty namespace, or the claim the volume was provisioned for.
ClaimRefs(k) ==
    { NilRef,
      [IsNil |-> FALSE, Namespace |-> "", Name |-> k.claim.Name],
      [IsNil |-> FALSE, Namespace |-> k.claim.Namespace,
       Name |-> k.claim.Name] }

\* The parameters GetClassForVolume may find for a descriptor: those it was
\* provisioned with, or parameters that no longer resolve.
ClassParametersOf(k) ==
    {k.Parameters} \cup {p \in ClassParameters : NewProvisionerConfigErr(p) # Nil}

\* Variant of DeleteEarlyErr: the error of NewProvisionerConfig is dropped.
DeleteEarlyErr_IgnoresConfig(classFound, params, ref) ==
    IF ~classFound THEN "GetClassForVolume"
    ELSE IF ref.IsNil THEN "glusterfs: ClaimRef is nil"
    ELSE IF ref.Namespace = "" THEN "glusterfs: namespace is nil"
    ELSE Nil

\* Variant of DeleteEarlyErr: an empty namespace is let through.
DeleteEarlyErr_IgnoresNamespace(classFound, params, ref) ==
    IF ~classFound THEN "GetClassForVolume"
    ELSE IF NewProvisionerConfigErr(params) # Nil THEN "Parameter is invalid"
    ELSE IF ref.IsNil THEN "glusterfs: ClaimRef is nil"
    ELSE Nil

\* Delete, lines 326-344: the error Delete returns before any teardown.
DeleteEarlyErr(classFound, params, ref) ==
    IF ~classFound THEN "GetClassForVolume"
    ELSE IF NewProvisionerConfigErr(params) # Nil THEN "Parameter is invalid"
    ELSE IF ref.IsNil THEN "glusterfs: ClaimRef is nil"
    ELSE IF ref.Namespace = "" THEN "glusterfs: namespace is nil"
    ELSE Nil

\* Delete, lines 324-345: the entry, up to the call of deleteVolume.
Delete ==
    /\ pc \in {"idle", "returned"}
    /\ ncalls < MaxCalls
    /\ \E k \in pvs, classFound \in BOOLEAN :
       \E params \in ClassParametersOf(k), ref \in ClaimRefs(k) :
         LET e == DeleteEarlyErr(classFound, params, ref)
         IN /\ volume' = [Name |-> k.pv.Name, Gid |-> k.gid,
                          EndpointsName |-> k.pv.Glusterfs.EndpointsName,
                          Path |-> k.pv.Glusterfs.Path,
                          ClaimRef |-> ref, Parameters |-> params,
                          ClassFound |-> classFound]
            /\ log' = <<CallEntry("get_class", "Delete", NoObj,
                                  IF classFound THEN "ok" ELSE "failed")>>
            /\ IF e # Nil
               THEN /\ pc' = "returned"
                    /\ ret' = [pv |-> NilPV, state |-> "", err |-> e]
                    /\ cfg' = NoCfg
               ELSE /\ pc' = "deleteGlusterVolume"
                    /\ ret' = NoRet
                    /\ cfg' = NewProvisionerConfig(k.pv.Name, params)
    /\ entry' = "Delete"
    /\ options' = NoOptions
    /\ gid' = 0
    /\ idx' = 0
    /\ bricks' = <<>>
    /\ err' = Nil
    /\ made' = {}
    /\ ncalls' = ncalls + 1
    /\ UNCHANGED worldVars
    /\ dvErr' = Nil
    /\ UNCHANGED <<client, parked, cur>>

\* The descriptor the caller keeps that Delete was called with.
KeptOf(v) == {k \in pvs : k.pv.Name = v.Name /\ k.gid = v.Gid}

\* Variant of DeleteReturn: the error of Release is returned.
DeleteReturn_Propagates(releaseErr) == releaseErr

\* Delete, lines 348-353: what Delete returns after the teardown, whatever
\* the error of Release.
DeleteReturn(releaseErr) == Nil

\* Delete, lines 347-353: the gid is released, a failure is logged, and
\* Delete returns nil.  The caller then drops the descriptor.
Release ==
    /\ pc = "Release"
    /\ \E ok \in BOOLEAN :
         /\ gids' = IF ok THEN gids \ {volume.Gid} ELSE gids
         /\ log' = Append(log, CallEntry("Release", "Delete", NoObj,
                                         IF ok THEN "ok" ELSE "failed"))
         /\ ret' = [pv |-> NilPV, state |-> "",
                    err |-> DeleteReturn(IF ok THEN Nil ELSE "AllocatorError")]
    /\ pc' = "returned"
    /\ pvs' = IF ret'.err = Nil THEN pvs \ KeptOf(volume) ELSE pvs
    /\ UNCHANGED <<entry, options, volume, cfg, gid, idx, bricks, err, made,
                   dirs, volumes, endpoints, services, ncalls>>
    /\ UNCHANGED <<dvErr, client, parked, cur>>

----------------------------------------------------------------------------
(* The specification *)

Next ==
    \/ Provision
    \/ AllocateNext
    \/ ResolveConfig
    \/ createBricks
    \/ createGlusterVolume
    \/ createEndpoints
    \/ createService
    \/ deleteGlusterVolume
    \/ deleteGlusterVolumeDelete
    \/ deleteBricks
    \/ deleteEndpointService
    \/ Delete
    \/ Release

Spec == Init /\ [][Next]_vars

\* A provisioner value of any client: the one built by the constructor, and
\* one whose client field is nil, the case the guards of lines 263 and 427
\* are written for (a glusterfsProvisioner built as a struct literal).
InitAnyClient ==
    /\ NothingYet
    /\ client \in {"client", Nil}

SpecAnyClient == InitAnyClient /\ [][Next]_vars

----------------------------------------------------------------------------
(* Two calls at a time *)

\* The controller runs Provision and Delete of different volumes in
\* goroutines of their own, on the one provisioner.  The variables of a call
\* are those of the goroutine that is running; parked holds those of the
\* other, and Switch hands the processor over, which may happen between any
\* two external calls.
Switch ==
    /\ parked' = Locals
    /\ pc' = parked.pc
    /\ entry' = parked.entry
    /\ options' = parked.options
    /\ volume' = parked.volume
    /\ cfg' = parked.cfg
    /\ gid' = parked.gid
    /\ idx' = parked.idx
    /\ bricks' = parked.bricks
    /\ err' = parked.err
    /\ dvErr' = parked.dvErr
    /\ ret' = parked.ret
    /\ log' = parked.log
    /\ made' = parked.made
    /\ cur' = 3 - cur
    /\ UNCHANGED <<ncalls, client>>
    /\ UNCHANGED worldVars

\* The claims each of the two goroutines works for: the controller hands the
\* calls of one volume to one goroutine at a time, the first claim to the
\* first goroutine and the others to the second.
ClaimsOf(i) ==
    IF i = 1 THEN {c \in Claims : c.Name = "pvc-a"}
    ELSE {c \in Claims : c.Name # "pvc-a"}

\* The call that has just been entered is one for a claim of the goroutine.
OwnRequest ==
    \E c \in ClaimsOf(cur) :
       IF entry = "Provision"
       THEN /\ options.PVC.Namespace = c.Namespace
            /\ options.PVC.Name = c.Name
            /\ options.PVName = c.PVName
       ELSE volume.Name = c.PVName

\* The request of the first claim on the one-host class, and the state a
\* successful Provision of it leaves behind.
ProvisionedOptions ==
    CHOOSE o \in ProvisionOptionsSet :
       /\ o.PVC.Name = "pvc-a"
       /\ ~o.PVC.Selector
       /\ o.Parameters.wellformed
       /\ Len(o.Parameters.brickrootpaths) = 1
Provisioned ==
    LET o == ProvisionedOptions
        c == NewProvisionerConfig(o.PVName, o.Parameters)
        root == c.BrickRootPaths[1]
        path == createBrickPath(root, o.PVC.Namespace, o.PVC.Name, c)
        name == createEpServiceName(o.PVC.Name)
        ep == NewEndpoints(o.PVC.Namespace, name, getClusterNodes(c), o.PVC.Name)
        svc == NewService(o.PVC.Namespace, name, o.PVC.Name)
    IN /\ dirs = {<<root.Host, path>>}
       /\ volumes = (c.VolumeName :> "started")
       /\ endpoints = {ep}
       /\ services = {svc}
       /\ gids = {1}
       /\ pvs = {Kept(NewPersistentVolume(o, c, 1, name), o, 1,
                      <<[Host |-> root.Host, Path |-> path]>>, Key(ep))}

\* The two goroutines start on a provisioner with nothing provisioned, or
\* with the volume of the first claim provisioned (a state Spec reaches).
InitConc ==
    /\ NoCallYet
    /\ client = "client"
    /\ \/ /\ dirs = {}
          /\ volumes = <<>>
          /\ endpoints = {}
          /\ services = {}
          /\ gids = {}
          /\ pvs = {}
       \/ Provisioned

NextConc ==
    \/ Provision /\ OwnRequest'
    \/ AllocateNext
    \/ ResolveConfig
    \/ createBricks
    \/ createGlusterVolume
    \/ createEndpoints
    \/ createService
    \/ deleteGlusterVolume
    \/ deleteGlusterVolumeDelete
    \/ deleteBricks
    \/ deleteEndpointService
    \/ Delete /\ OwnRequest'
    \/ Release
    \/ Switch

SpecConc == InitConc /\ [][NextConc]_vars

----------------------------------------------------------------------------
(* Vocabulary of the properties *)

Last(q) == q[Len(q)]

\* The entries of the log issued by the create stages, and by the teardown.
CreateSites == {"createBricks", "createGlusterVolume", "createEndpointService"}
TeardownSites == {"deleteGlusterVolume", "deleteBricks", "deleteEndpointService"}
IsCreate(x) == x.site \in CreateSites
IsTeardown(x) == x.site \in TeardownSites

\* An entry whose operation failed ("already exists" is no failure of a
\* create; "not found" is the store's answer to deleting what is absent).
Failed(x) == x.res \in {"failed", "Other"}

\* The entries of q of the create stages, of the teardown, of one site.
CreateEntries(q) == SelectSeq(q, IsCreate)
TeardownEntries(q) == SelectSeq(q, IsTeardown)
SiteEntries(q, site) == SelectSeq(q, LAMBDA x : x.site = site)

ProvisionReturned == entry = "Provision" /\ pc = "returned"
DeleteReturned == entry = "Delete" /\ pc = "returned"

\* A Provision that returned after its create pipeline failed.
CreateFailed == ProvisionReturned /\ err # Nil

\* The brick path, as the specification writes it.
SpecPath(root, ns, claim, vol) ==
    root.Path \o "/" \o ns \o "/" \o claim \o "-" \o vol

----------------------------------------------------------------------------
(* C1 *)

\* C1: a Provision that returns an error after it created a brick directory,
\* a volume or an exposure object, and whose teardown steps all succeed,
\* leaves nothing of what it created: no brick directory, no volume, neither
\* the address-list object nor the port-mapping object.
C1_NoPartialState ==
    ( /\ CreateFailed
      /\ made # {}
      /\ \A j \in 1..Len(log) : IsTeardown(log[j]) => ~Failed(log[j]) )
    => \A r \in made : ~Present(r)

----------------------------------------------------------------------------
(* C2 *)

\* The error a failed create stage surfaces, from the entry that failed.
StageError(x) ==
    CASE x.kind = "exec" -> "RemoteCommandError"
      [] x.kind = "create_endpoints" -> "error creating endpoint"
      [] x.kind = "create_service" -> "error creating service"

\* C2: after a create that failed at any stage, the teardown issued the
\* forced volume stop on the first host, a recursive remove on every one of
\* the N configured hosts in order, and last the port-mapping delete,
\* whatever teardown steps failed; Provision returns the error of the create
\* stage that failed.
C2_RollbackComplete ==
    CreateFailed =>
      LET td == TeardownEntries(log)
          rm == SiteEntries(log, "deleteBricks")
          cr == CreateEntries(log)
          roots == options.Parameters.brickrootpaths
          ns == options.PVC.Namespace
          claim == options.PVC.Name
      IN /\ Len(td) >= 1
         /\ td[1].host = roots[1].Host
         /\ td[1].cmds = <<"gluster --mode=script volume stop "
                             \o options.PVName \o " force">>
         /\ Len(rm) = Len(roots)
         /\ \A i \in 1..Len(roots) :
              /\ rm[i].host = roots[i].Host
              /\ rm[i].cmds = <<"rm -rf " \o SpecPath(roots[i], ns, claim,
                                                     options.PVName)>>
         /\ Last(td).kind = "delete_service"
         /\ Key(Last(td).obj) = <<ns, "glusterfs-simple-" \o claim>>
         /\ Last(log) = Last(td)
         /\ Failed(Last(cr))
         /\ ret.err = StageError(Last(cr))
         /\ ret.pv = NilPV

\* C2 witness: N = 2, the brick batch failed on the second host after it
\* succeeded on the first, steps of the teardown failed, and Provision
\* returned.
C2_Witness ==
    /\ CreateFailed
    /\ Len(options.Parameters.brickrootpaths) = 2
    /\ Len(SiteEntries(log, "createBricks")) = 2
    /\ \E j \in 1..Len(log) : log[j].site = "deleteGlusterVolume" /\ Failed(log[j])
    /\ \E j \in 1..Len(log) : log[j].site = "deleteBricks" /\ log[j].host = "h1"
                                /\ Failed(log[j])

----------------------------------------------------------------------------
(* C3 *)

\* C3: once an operation of a create stage has failed, no operation of a
\* create stage follows it in the call: no further brick batch, no volume
\* batch, no exposure object creation.
C3_NoLaterStage ==
    \A i \in 1..Len(log) :
       (IsCreate(log[i]) /\ Failed(log[i])) =>
          \A j \in (i + 1)..Len(log) : ~IsCreate(log[j])

\* C3 witness: with two hosts the batch of the first failed, and the call
\* went on to its end.
C3_Witness ==
    /\ ProvisionReturned
    /\ Len(options.Parameters.brickrootpaths) = 2
    /\ \E i \in 1..Len(log) :
         /\ log[i].site = "createBricks" /\ log[i].host = "h1" /\ Failed(log[i])
         /\ i < Len(log)

----------------------------------------------------------------------------
(* C4 *)

\* C4: after a successful Provision and a Delete of its descriptor in which
\* every remote command and object-store call succeeds, none of the brick
\* directories, the volume, the address-list object or the port-mapping
\* object of the claim exists.
C4_RoundTrip ==
    ( /\ DeleteReturned
      /\ ret.err = Nil
      /\ cfg # NoCfg
      /\ \A j \in 1..Len(log) : log[j].res = "ok" )
    => LET ns == volume.ClaimRef.Namespace
           claim == volume.ClaimRef.Name
       IN /\ \A i \in 1..Len(cfg.BrickRootPaths) :
               <<cfg.BrickRootPaths[i].Host,
                 SpecPath(cfg.BrickRootPaths[i], ns, claim, volume.Name)>>
                  \notin dirs
          /\ volume.Path \notin DOMAIN volumes
          /\ ~Exists(services, ns, volume.EndpointsName)
          /\ ~Exists(endpoints, ns, volume.EndpointsName)

----------------------------------------------------------------------------
(* C5 *)

\* C5: Provision of a request that carries a selector returns a final error
\* and no descriptor, having issued no remote command, no object-store call
\* and no id allocation.
C5_SelectorRejected ==
    (entry = "Provision" /\ options.PVC.Selector) =>
       /\ pc = "returned"
       /\ ret.pv = NilPV
       /\ ret.state = ProvisioningFinished
       /\ ret.err # Nil
       /\ log = <<>>
       /\ gid = 0
       /\ made = {}

\* C5 witness: a request with a selector was made and has returned, while
\* ids were free to allocate.
C5_Witness ==
    /\ ProvisionReturned
    /\ options.PVC.Selector
    /\ FreeGids # {}

----------------------------------------------------------------------------
(* C6 *)

\* C6: when configuration resolution fails in Provision, the call ends with
\* a final error and nothing external was touched: no remote command, no
\* exposure object, and no id acquired from the allocator or left held.
C6_ConfigErrorTouchesNothing ==
    (ProvisionReturned /\ ret.err = "Parameter is invalid") =>
       /\ ret.state = ProvisioningFinished
       /\ ret.pv = NilPV
       /\ log = <<>>
       /\ gid = 0
       /\ gid \notin gids

----------------------------------------------------------------------------
(* C7 *)

\* The recursive removes Delete is to issue: one per configured root, in
\* root-list order.
ExpectedRemoves(roots, ns, claim, vol) ==
    [i \in 1..Len(roots) |->
       [host |-> roots[i].Host,
        cmds |-> <<"rm -rf " \o SpecPath(roots[i], ns, claim, vol)>>]]

\* An entry of the log without its outcome.
Issued(x) == [host |-> x.host, cmds |-> x.cmds]

\* C7: a Delete whose configuration resolves and whose claim reference has a
\* namespace issues, in this order and whatever the outcome of each: the
\* forced stop on the first host (and the volume delete there after a stop
\* that succeeded), a recursive remove on every configured host in root-list
\* order, the port-mapping delete, and last the release of the id.
C7_DeleteOrder ==
    (DeleteReturned /\ cfg # NoCfg) =>
      LET roots == volume.Parameters.brickrootpaths
          ns == volume.ClaimRef.Namespace
          claim == volume.ClaimRef.Name
          n == Len(roots)
          body == Tail(log)
          k == IF Failed(body[1]) THEN 1 ELSE 2
      IN /\ Len(body) = k + n + 2
         /\ Issued(body[1]) =
               [host |-> roots[1].Host,
                cmds |-> <<"gluster --mode=script volume stop "
                             \o volume.Name \o " force">>]
         /\ k = 2 =>
               Issued(body[2]) =
                 [host |-> roots[1].Host,
                  cmds |-> <<"gluster --mode=script volume delete "
                               \o volume.Name>>]
         /\ [i \in 1..n |-> Issued(body[k + i])]
               = ExpectedRemoves(roots, ns, claim, volume.Name)
         /\ body[k + n + 1].kind = "delete_service"
         /\ Key(body[k + n + 1].obj) = <<ns, "glusterfs-simple-" \o claim>>
         /\ body[k + n + 2].kind = "Release"

\* C7 witness: a Delete over two hosts in which the stop failed, the remove
\* on the first host failed and the port-mapping delete failed has issued
\* the remove on the second host and the release.
C7_Witness ==
    /\ DeleteReturned
    /\ cfg # NoCfg
    /\ Len(cfg.BrickRootPaths) = 2
    /\ Failed(log[2])
    /\ Failed(log[3])
    /\ log[4].host = "h2"
    /\ Failed(log[5])
    /\ log[6].kind = "Release"

----------------------------------------------------------------------------
(* C8 *)

\* C8: once Delete has reached the teardown it returns nil, whatever fails:
\* the stop or the delete of the volume, the removal of bricks, the delete
\* of the exposure object, the release of the id.
C8_DeleteReturnsNil ==
    (DeleteReturned /\ cfg # NoCfg) => ret.err = Nil

\* C8 witness: a Delete in which the stop, a remove, the object delete and
\* the release all failed has returned.
C8_Witness ==
    /\ DeleteReturned
    /\ cfg # NoCfg
    /\ \E j \in 1..Len(log) : log[j].site = "deleteGlusterVolume" /\ Failed(log[j])
    /\ \E j \in 1..Len(log) : log[j].site = "deleteBricks" /\ Failed(log[j])
    /\ \E j \in 1..Len(log) : log[j].kind = "delete_service" /\ Failed(log[j])
    /\ \E j \in 1..Len(log) : log[j].kind = "Release" /\ Failed(log[j])

\* The other failure of the volume teardown is reached too: the stop
\* succeeded and the volume delete failed (a failed stop issues no delete).
C8_DeleteFailedReached ==
    /\ DeleteReturned
    /\ cfg # NoCfg
    /\ ~Failed(log[2])
    /\ Failed(log[3])

----------------------------------------------------------------------------
(* C9 *)

\* The bricks of a request as host:path arguments, in root-list order.
RECURSIVE SpecBrickArgs(_, _, _, _)
SpecBrickArgs(roots, ns, claim, vol) ==
    IF roots = <<>> THEN ""
    ELSE " " \o roots[1].Host \o ":" \o SpecPath(roots[1], ns, claim, vol)
           \o SpecBrickArgs(Tail(roots), ns, claim, vol)

\* The sequence a successful create is to issue after the id allocation.
ExpectedCreate(o, g) ==
    LET roots == o.Parameters.brickrootpaths
        ns == o.PVC.Namespace
        claim == o.PVC.Name
        vol == o.PVName
        none == [Namespace |-> "", Name |-> "", Label |-> "", Addresses |-> <<>>]
        brick(i) ==
          LET path == SpecPath(roots[i], ns, claim, vol)
          IN [kind |-> "exec", host |-> roots[i].Host, obj |-> none,
              cmds |-> << "mkdir -p " \o path,
                          "chown :" \o ToString(g) \o " " \o path,
                          "chmod 0771 " \o path >>]
        vcreate ==
          [kind |-> "exec", host |-> roots[1].Host, obj |-> none,
           cmds |-> << "gluster --mode=script volume create " \o vol \o " "
                          \o o.Parameters.volumetype
                          \o SpecBrickArgs(roots, ns, claim, vol)
                          \o (IF o.Parameters.forcecreate THEN " force" ELSE ""),
                       "gluster --mode=script volume start " \o vol >>]
        ep == [kind |-> "create_endpoints", host |-> "", cmds |-> <<>>,
               obj |-> [Namespace |-> ns, Name |-> "glusterfs-simple-" \o claim,
                        Label |-> claim,
                        Addresses |-> [i \in 1..Len(roots) |-> roots[i].Host]]]
        svc == [kind |-> "create_service", host |-> "", cmds |-> <<>>,
                obj |-> [Namespace |-> ns, Name |-> "glusterfs-simple-" \o claim,
                         Label |-> claim, Addresses |-> <<>>]]
    IN [i \in 1..Len(roots) |-> brick(i)] \o <<vcreate, ep, svc>>

\* What an entry of the log issued, without its outcome.
Operation(x) == [kind |-> x.kind, host |-> x.host, cmds |-> x.cmds, obj |-> x.obj]

\* C9: a successful create issues, after the id allocation, exactly: one
\* brick batch (mkdir -p, chown to the allocated gid, chmod 0771) per
\* configured root in root-list order; one volume batch on the first host (a
\* create naming all bricks as host:path in order, with force exactly when
\* configured, then the start); the creation of the address-list object with
\* one address per configured host in order; the creation of the
\* port-mapping object.
C9_CreateSequence ==
    (ProvisionReturned /\ ret.err = Nil) =>
       /\ log[1].kind = "AllocateNext"
       /\ [i \in 1..(Len(log) - 1) |-> Operation(log[i + 1])]
             = ExpectedCreate(options, gid)
       /\ \A i \in 1..Len(log) : ~Failed(log[i])

\* C9 witness: a successful create over two hosts with the force flag set.
C9_Witness ==
    /\ ProvisionReturned
    /\ ret.err = Nil
    /\ Len(options.Parameters.brickrootpaths) = 2
    /\ options.Parameters.forcecreate

\* C9 witness of the other case of the force flag: a successful create
\* without it.
C9_NoForceReached ==
    /\ ProvisionReturned
    /\ ret.err = Nil
    /\ ~options.Parameters.forcecreate

----------------------------------------------------------------------------
(* C10 *)

\* The key of the exposure objects of the request in flight.
PublishKey == <<options.PVC.Namespace, "glusterfs-simple-" \o options.PVC.Name>>

\* The objects of the store under the key of the request in flight.
Published(store) == {o \in store : Key(o) = PublishKey}

\* One step of publish on one of the two stores: an object already there is
\* answered "already exists" and is no error, the store is left as it was
\* and publish goes on; any other failure becomes the error of publish, and
\* nothing is created.
PublishStep(kind, what, store, storeAfter, errAfter, onward) ==
    LET x == Last(log')
    IN /\ x.kind = kind
       /\ (Published(store) # {} /\ x.res # "Other") =>
             /\ x.res = "AlreadyExists"
             /\ errAfter = Nil
             /\ onward
             /\ storeAfter = store
       /\ (Published(store) = {} /\ x.res # "Other") =>
             /\ x.res = "ok"
             /\ errAfter = Nil
             /\ onward
             /\ storeAfter = store \cup {x.obj}
       /\ x.res = "Other" =>
             /\ errAfter = "error creating " \o what
             /\ ~onward
             /\ pc' = "deleteGlusterVolume"
             /\ storeAfter = store

\* C10: publish never fails because an object already exists, for the
\* address-list object and the port-mapping object alike; a publish over
\* objects that exist leaves the store as it is, so that after a publish
\* that succeeded the store holds exactly one object of each kind under the
\* key, whether it was the first call or a repeated one; any other creation
\* failure is returned as the error.
C10_PublishIdempotent ==
    [][ /\ pc = "createEndpoints" =>
              /\ PublishStep("create_endpoints", "endpoint", endpoints,
                             endpoints', err', pc' = "createService")
              /\ services' = services
        /\ pc = "createService" =>
              /\ PublishStep("create_service", "service", services,
                             services', err',
                             pc' = "returned" /\ ret'.err = Nil)
              /\ endpoints' = endpoints
              /\ pc' = "returned" =>
                    /\ Cardinality(Published(endpoints')) = 1
                    /\ Cardinality(Published(services')) = 1
        /\ (pc = "deleteEndpointService" /\ entry = "Provision"
              /\ Last(CreateEntries(log)).kind
                    \in {"create_endpoints", "create_service"}) =>
              ret'.err = StageError(Last(CreateEntries(log)))
      ]_vars

\* C10 witness: a publish in which both objects already existed has
\* succeeded.
C10_Witness ==
    /\ ProvisionReturned
    /\ ret.err = Nil
    /\ log[Len(log) - 1].kind = "create_endpoints"
    /\ log[Len(log) - 1].res = "AlreadyExists"
    /\ Last(log).kind = "create_service"
    /\ Last(log).res = "AlreadyExists"

\* The mixed case is reached too: the address-list object existed and the
\* port-mapping object did not.
C10_OneExistedReached ==
    /\ ProvisionReturned
    /\ ret.err = Nil
    /\ log[Len(log) - 1].res = "AlreadyExists"
    /\ Last(log).res = "ok"

----------------------------------------------------------------------------
(* C11 *)

\* C11: create and delete agree on every target with nothing persisted: the
\* Delete of a descriptor issues its recursive removes on exactly the hosts
\* and paths of the bricks the Provision of that descriptor created (root
\* path, namespace, claimName-volumeName), in the same order, and its
\* unpublish targets exactly the key (the claim's namespace, prefix + claim
\* name) under which create published and whose name the descriptor records.
C11_SameTargets ==
    (entry = "Delete" /\ pc = "Release") =>
       /\ KeptOf(volume) # {}
       /\ \A k \in KeptOf(volume) :
          LET rm == SiteEntries(log, "deleteBricks")
              roots == k.Parameters.brickrootpaths
          IN /\ Len(rm) = Len(k.bricks)
             /\ Len(rm) = Len(roots)
             /\ \A i \in 1..Len(rm) :
                  /\ rm[i].host = k.bricks[i].Host
                  /\ rm[i].cmds = <<"rm -rf " \o k.bricks[i].Path>>
                  /\ k.bricks[i].Path =
                        SpecPath(roots[i], k.claim.Namespace, k.claim.Name,
                                 k.pv.Name)
             /\ Last(log).kind = "delete_service"
             /\ Key(Last(log).obj) = k.epKey
             /\ k.epKey = <<k.claim.Namespace,
                            "glusterfs-simple-" \o k.claim.Name>>
             /\ k.pv.Glusterfs.EndpointsName = k.epKey[2]

\* C11 witness: the teardown of a Delete of a descriptor provisioned over two
\* hosts has run to its end.
C11_Witness ==
    /\ entry = "Delete"
    /\ pc = "Release"
    /\ \E k \in KeptOf(volume) : Len(k.bricks) = 2
    /\ Len(SiteEntries(log, "deleteBricks")) = 2

----------------------------------------------------------------------------
(* C12 *)

\* Every stage of the create of the request in flight was issued and none
\* failed: a brick batch per configured root, the volume batch, the creation
\* of both exposure objects.
AllStagesSucceeded ==
    LET cr == CreateEntries(log)
        n == Len(options.Parameters.brickrootpaths)
    IN /\ n >= 1
       /\ Len(cr) = n + 3
       /\ \A i \in 1..n : cr[i].site = "createBricks"
       /\ cr[n + 1].site = "createGlusterVolume"
       /\ cr[n + 2].kind = "create_endpoints"
       /\ cr[n + 3].kind = "create_service"
       /\ \A i \in 1..Len(cr) : ~Failed(cr[i])

\* C12: Provision returns a descriptor if and only if every create stage
\* succeeded, and then the call issued no stop, delete, remove or object
\* delete; in every other outcome past the id allocation and the resolution
\* of the configuration the teardown ran to its end and no descriptor is
\* returned.  The descriptor names the exposure object that was published
\* and the configured volume name, and its gid annotation is the id that was
\* allocated and applied to every brick directory.
C12_SuccessOnlyExit ==
    ProvisionReturned =>
      LET cr == CreateEntries(log)
          td == TeardownEntries(log)
          n == Len(options.Parameters.brickrootpaths)
      IN /\ (ret.pv # NilPV) <=> AllStagesSucceeded
         /\ (ret.pv # NilPV) <=> (ret.err = Nil)
         /\ AllStagesSucceeded => td = <<>>
         /\ (cfg # NoCfg /\ ~AllStagesSucceeded) =>
               /\ td # <<>>
               /\ td[1].site = "deleteGlusterVolume"
               /\ Last(td).site = "deleteEndpointService"
               /\ Last(log) = Last(td)
               /\ ret.pv = NilPV
               /\ ret.err # Nil
         /\ AllStagesSucceeded =>
               /\ ret.pv.Glusterfs.EndpointsName = cr[n + 2].obj.Name
               /\ ret.pv.Glusterfs.EndpointsName = cr[n + 3].obj.Name
               /\ ret.pv.Glusterfs.Path = cfg.VolumeName
               /\ ret.pv.Glusterfs.Path = options.PVName
               /\ log[1].kind = "AllocateNext"
               /\ gid \in gids
               /\ ret.pv.Annotations.gid = ToString(gid)
               /\ \A i \in 1..n :
                     cr[i].cmds[2] = "chown :" \o ret.pv.Annotations.gid \o " "
                        \o SpecPath(options.Parameters.brickrootpaths[i],
                                    options.PVC.Namespace, options.PVC.Name,
                                    options.PVName)

\* C12 witness: a Provision over two hosts has returned its descriptor.
C12_Witness ==
    /\ ProvisionReturned
    /\ ret.pv # NilPV
    /\ Len(cfg.BrickRootPaths) = 2
    /\ gid = 2

\* The other exit is reached too: the last stage failed, after every other
\* stage succeeded, and Provision returned after its teardown.
C12_RollbackReached ==
    /\ ProvisionReturned
    /\ cfg # NoCfg
    /\ ret.pv = NilPV
    /\ Last(CreateEntries(log)).kind = "create_service"

----------------------------------------------------------------------------
(* C13 *)

\* The request of the call in flight: its brick roots, namespace, claim name
\* and volume name, as Provision and as Delete receive them.
CallRoots ==
    IF entry = "Provision" THEN options.Parameters.brickrootpaths
    ELSE volume.Parameters.brickrootpaths
CallForce ==
    IF entry = "Provision" THEN options.Parameters.forcecreate
    ELSE volume.Parameters.forcecreate
CallType ==
    IF entry = "Provision" THEN options.Parameters.volumetype
    ELSE volume.Parameters.volumetype
CallNamespace ==
    IF entry = "Provision" THEN options.PVC.Namespace
    ELSE volume.ClaimRef.Namespace
CallClaim ==
    IF entry = "Provision" THEN options.PVC.Name ELSE volume.ClaimRef.Name
CallVolume == IF entry = "Provision" THEN options.PVName ELSE volume.Name

\* The cluster-management commands of the call in flight: the volume create,
\* start, stop and delete.
ClusterCommands ==
    { "gluster --mode=script volume create " \o CallVolume \o " " \o CallType
         \o SpecBrickArgs(CallRoots, CallNamespace, CallClaim, CallVolume)
         \o (IF CallForce THEN " force" ELSE ""),
      "gluster --mode=script volume start " \o CallVolume,
      "gluster --mode=script volume stop " \o CallVolume \o " force",
      "gluster --mode=script volume delete " \o CallVolume }

\* The filesystem commands of the call in flight on the brick path of one
\* root, for any id.
FilesystemCommands(root) ==
    LET path == SpecPath(root, CallNamespace, CallClaim, CallVolume)
    IN { "mkdir -p " \o path, "chmod 0771 " \o path, "rm -rf " \o path }
         \cup { "chown :" \o ToString(g) \o " " \o path : g \in 1..MaxGids }

\* C13: in every Provision and Delete call every cluster-management command
\* (volume create, start, stop, delete) is sent to the host of the first
\* configured brick root and to no other, and what is sent to any other host
\* is a filesystem command on that host's own brick path: a batch is either
\* filesystem commands on the brick path of the host it is sent to, or
\* cluster-management commands sent to the first host.  It is stated of the
\* batch issued last: the log grows by one batch at a time, so every batch
\* of a call is the last one in the state that follows its issue.
C13_SingleControlPoint ==
    (log # <<>> /\ Last(log).kind = "exec") =>
       LET x == Last(log)
       IN \/ \E i \in 1..Len(CallRoots) :
               /\ CallRoots[i].Host = x.host
               /\ \A n \in 1..Len(x.cmds) :
                     x.cmds[n] \in FilesystemCommands(CallRoots[i])
          \/ /\ x.host = CallRoots[1].Host
             /\ \A n \in 1..Len(x.cmds) : x.cmds[n] \in ClusterCommands

\* C13 witness: a Provision over two hosts whose volume batch failed has
\* returned: it sent commands to both hosts, and cluster-management commands
\* of the create and of the teardown.
C13_Witness ==
    /\ CreateFailed
    /\ Len(CallRoots) = 2
    /\ \E j \in 1..Len(log) : log[j].site = "createGlusterVolume"
    /\ \E j \in 1..Len(log) : log[j].site = "deleteGlusterVolume"
                                /\ log[j].cmds[1] \in ClusterCommands
                                /\ log[j].cmds[1] =
                                     "gluster --mode=script volume delete vol1"
    /\ \E j \in 1..Len(log) : log[j].site = "deleteBricks"
                                /\ log[j].host = "h2"

\* The Delete case is reached too: a Delete over two hosts has issued its
\* stop and its removes.
C13_DeleteReached ==
    /\ DeleteReturned
    /\ cfg # NoCfg
    /\ Len(CallRoots) = 2
    /\ \E j \in 1..Len(log) : log[j].site = "deleteBricks" /\ log[j].host = "h2"

----------------------------------------------------------------------------
(* C14 *)

\* The teardown of the call in flight has run to its end.
TeardownDone ==
    \/ CreateFailed
    \/ entry = "Delete" /\ pc \in {"Release", "returned"} /\ cfg # NoCfg

\* C14: in every teardown, of Delete and of a failed create alike, the first
\* command issued is the forced volume stop; a volume delete command is
\* issued only directly after a stop that succeeded, and at most once; after
\* a stop that failed no volume delete is issued at all, yet the teardown
\* goes on to one remove per configured root and to the unpublish.
C14_StopThenDelete ==
    LET td == TeardownEntries(log)
        stop == <<"gluster --mode=script volume stop " \o CallVolume \o " force">>
        delete == <<"gluster --mode=script volume delete " \o CallVolume>>
    IN /\ td # <<>> => td[1].cmds = stop
       /\ \A j \in 1..Len(td) :
             /\ td[j].cmds = stop => j = 1
             /\ td[j].cmds = delete =>
                   j = 2 /\ td[1].cmds = stop /\ ~Failed(td[1])
       /\ (td # <<>> /\ ~Failed(td[1]) /\ Len(td) >= 2) => td[2].cmds = delete
       /\ (TeardownDone /\ Failed(td[1])) =>
             /\ \A j \in 1..Len(td) : td[j].cmds # delete
             /\ Len(td) = 1 + Len(CallRoots) + 1
             /\ \A i \in 1..Len(CallRoots) :
                   /\ td[1 + i].site = "deleteBricks"
                   /\ td[1 + i].host = CallRoots[i].Host
             /\ Last(td).kind = "delete_service"

\* C14 witness: the stop of a rollback over two hosts failed and the
\* teardown has run to its end.
C14_Witness ==
    /\ CreateFailed
    /\ Len(CallRoots) = 2
    /\ Failed(TeardownEntries(log)[1])

\* The other cases are reached too: a Delete whose stop failed, and a
\* teardown whose stop succeeded and issued the delete.
C14_DeleteStopFailedReached ==
    /\ DeleteReturned
    /\ cfg # NoCfg
    /\ Failed(TeardownEntries(log)[1])
C14_DeleteIssuedReached ==
    /\ TeardownDone
    /\ ~Failed(TeardownEntries(log)[1])
    /\ TeardownEntries(log)[2].cmds =
          <<"gluster --mode=script volume delete " \o CallVolume>>

----------------------------------------------------------------------------
(* C15 *)

C15_DeleteFailedReached ==
    /\ TeardownDone
    /\ client # Nil
    /\ Last(TeardownEntries(log)).res = "Other"
    /\ dvErr = Nil
C15_AbsentReached ==
    /\ TeardownDone
    /\ client # Nil
    /\ Last(TeardownEntries(log)).res = "NotFound"
    /\ dvErr = Nil

----------------------------------------------------------------------------
(* C16 *)

\* The positions of a call inside the volume lifecycle: createVolume and
\* deleteVolume.
LifecyclePositions ==
    {"createBricks", "createGlusterVolume", "createEndpoints",
     "createService", "deleteGlusterVolume", "deleteGlusterVolumeDelete",
     "deleteBricks", "deleteEndpointService"}

\* C16: the volume lifecycle is never entered with an empty brick-root list:
\* no call, in Provision, in the rollback of a create or in Delete, is at
\* createGlusterVolume or deleteGlusterVolume (or at any other stage of
\* createVolume and deleteVolume) with a configuration of zero brick roots,
\* createGlusterVolume never reads the first of zero bricks, and a call
\* whose storage class names no brick root issues no command at all.
C16_NoLifecycleWithoutRoots ==
    /\ pc \in LifecyclePositions => Len(cfg.BrickRootPaths) >= 1
    /\ pc = "createGlusterVolume" => Len(bricks) >= 1
    /\ (entry # "none" /\ Len(CallRoots) = 0) =>
          /\ pc \notin LifecyclePositions
          /\ cfg = NoCfg
          /\ \A j \in 1..Len(log) : log[j].kind # "exec"

\* C16 witness: a Delete whose storage class was found, is well formed and
\* names no brick root has returned.
C16_Witness ==
    /\ DeleteReturned
    /\ volume.ClassFound
    /\ volume.Parameters.wellformed
    /\ Len(volume.Parameters.brickrootpaths) = 0
    /\ ~volume.ClaimRef.IsNil
    /\ volume.ClaimRef.Namespace # ""

\* The Provision case is reached too: the request of a storage class that
\* names no brick root has returned.
C16_ProvisionReached ==
    /\ ProvisionReturned
    /\ options.Parameters.wellformed
    /\ Len(options.Parameters.brickrootpaths) = 0
    /\ gid # 0

----------------------------------------------------------------------------
(* C17 *)

\* The descriptor v cannot be deleted: its storage class cannot be fetched,
\* its configuration does not resolve, it has no claim reference, or the
\* claim reference has an empty namespace.
Undeletable(v) ==
    \/ ~v.ClassFound
    \/ ~v.Parameters.wellformed
    \/ Len(v.Parameters.brickrootpaths) = 0
    \/ v.ClaimRef.IsNil
    \/ v.ClaimRef.Namespace = ""

\* C17: a Delete of a descriptor whose storage class cannot be fetched,
\* whose configuration does not resolve, that has no claim reference or
\* whose claim reference has an empty namespace returns an error at once,
\* having issued nothing but the fetch of the class: no remote command, no
\* object-store delete, no release of the id; the hosts, the cluster, the
\* object store and the allocator are as they were, and the descriptor is
\* still the caller's.
C17_DeleteFailsClosed ==
    [][ (entry' = "Delete" /\ ncalls' = ncalls + 1 /\ Undeletable(volume')) =>
           /\ pc' = "returned"
           /\ ret'.err # Nil
           /\ Len(log') = 1
           /\ log'[1].kind = "get_class"
           /\ <<dirs', volumes', endpoints', services'>>
                 = <<dirs, volumes, endpoints, services>>
           /\ gids' = gids
           /\ volume'.Gid \in gids'
           /\ pvs' = pvs
      ]_vars

\* C17 witness, one per cause: a Delete returned its error while the brick
\* directory, the volume and the exposure objects of the descriptor exist
\* and its id is allocated.
C17_Intact ==
    /\ DeleteReturned
    /\ ret.err # Nil
    /\ Len(log) = 1
    /\ volume.Gid \in gids
    /\ volume.Path \in DOMAIN volumes
    /\ dirs # {}
    /\ services # {}
C17_Witness == C17_Intact /\ ~volume.ClassFound
C17_ConfigReached ==
    C17_Intact /\ volume.ClassFound /\ ~volume.Parameters.wellformed
C17_NoClaimRefReached ==
    /\ C17_Intact
    /\ volume.ClassFound
    /\ NewProvisionerConfigErr(volume.Parameters) = Nil
    /\ volume.ClaimRef.IsNil
C17_NoNamespaceReached ==
    /\ C17_Intact
    /\ volume.ClassFound
    /\ NewProvisionerConfigErr(volume.Parameters) = Nil
    /\ ~volume.ClaimRef.IsNil
    /\ volume.ClaimRef.Namespace = ""

----------------------------------------------------------------------------
(* C18 *)

\* C18: every id AllocateNext handed out is accounted for when the call
\* returns.  After a Provision that returned a descriptor the id is
\* allocated and the descriptor kept carries it; after a Provision that
\* returned an error the id it acquired is allocated no more; a Delete that
\* reached the teardown releases the id of its descriptor once, as its last
\* operation.
C18_IdsAccounted ==
    /\ (ProvisionReturned /\ ret.err = Nil) =>
          /\ gid \in gids
          /\ \E k \in pvs : k.gid = gid /\ k.pv = ret.pv
    /\ (ProvisionReturned /\ ret.err # Nil) =>
          /\ gid \notin gids
    /\ (DeleteReturned /\ cfg # NoCfg) =>
          /\ Last(log).kind = "Release"
          /\ Len(SelectSeq(log, LAMBDA x : x.kind = "Release")) = 1
          /\ ~Failed(Last(log)) => volume.Gid \notin gids

\* The case of C18 that owes nothing to C6: after a create that failed once
\* the configuration had resolved, and was rolled back, the id the call
\* acquired is allocated no more.
C18_RollbackReleasesId ==
    (CreateFailed /\ cfg # NoCfg) => gid \notin gids

----------------------------------------------------------------------------
(* C19 *)

\* The remote resources that exist.
Existing ==
    {Dir(d[1], d[2]) : d \in dirs}
      \cup {Vol(n) : n \in DOMAIN volumes}
      \cup {Ep(o.Namespace, o.Name) : o \in endpoints}
      \cup {Svc(o.Namespace, o.Name) : o \in services}

\* C19: a Provision removes only what that same call created.  No step of a
\* Provision call removes a volume, a brick directory or an exposure object
\* that exists and that the call did not create, so that whatever existed
\* when the call started exists when it returns its error.
C19_RemovesOnlyOwn ==
    [][ (entry = "Provision" /\ entry' = "Provision" /\ ncalls' = ncalls) =>
           \A r \in Existing : r \notin made => Present(r)'
      ]_vars

\* The example of C19: when a Provision has returned an error, the volume,
\* the brick directories and the port-mapping object of every descriptor
\* the caller keeps (each returned by an earlier successful Provision)
\* exist.
C19_KeptSurvives ==
    CreateFailed =>
       \A k \in pvs :
          /\ k.pv.Glusterfs.Path \in DOMAIN volumes
          /\ \A i \in 1..Len(k.bricks) :
                <<k.bricks[i].Host, k.bricks[i].Path>> \in dirs
          /\ Exists(services, k.epKey[1], k.epKey[2])

----------------------------------------------------------------------------
(* C20 *)

\* The state Provisioned is one that Spec reaches.
ProvisionedReached ==
    /\ ProvisionReturned
    /\ ret.err = Nil
    /\ Provisioned

\* What belongs to claim c: its brick directories on every host, its
\* volume, its exposure objects.
BrickDirsOf(c) ==
    { <<HostNames[i], SpecPath(Roots(i)[i], c.Namespace, c.Name, c.PVName)>> :
        i \in 1..MaxHosts }
ExposureKeyOf(c) == <<c.Namespace, "glusterfs-simple-" \o c.Name>>
Belongings(c) ==
    [dirs |-> dirs \cap BrickDirsOf(c),
     volume |-> IF c.PVName \in DOMAIN volumes THEN volumes[c.PVName]
                ELSE "none",
     endpoints |-> {o \in endpoints : Key(o) = ExposureKeyOf(c)},
     services |-> {o \in services : Key(o) = ExposureKeyOf(c)}]

\* The claim of the running call, and of the parked one.
RunningClaim ==
    [Namespace |-> CallNamespace, Name |-> CallClaim, PVName |-> CallVolume]
ParkedClaim ==
    IF parked.entry = "Provision"
    THEN [Namespace |-> parked.options.PVC.Namespace,
          Name |-> parked.options.PVC.Name,
          PVName |-> parked.options.PVName]
    ELSE [Namespace |-> parked.volume.ClaimRef.Namespace,
          Name |-> parked.volume.ClaimRef.Name,
          PVName |-> parked.volume.Name]

\* Both calls are in flight.
BothInFlight ==
    /\ pc \notin {"idle", "returned"}
    /\ parked.pc \notin {"idle", "returned"}

\* Two claims differ in (namespace, claim name) and in volume name.
Differ(a, b) ==
    /\ <<a.Namespace, a.Name>> # <<b.Namespace, b.Name>>
    /\ a.PVName # b.PVName

\* Two claims differ in the brick name (claimName-volumeName) of their
\* namespace as well.
DifferInBrick(a, b) ==
    /\ Differ(a, b)
    /\ <<a.Namespace, a.Name \o "-" \o a.PVName>>
          # <<b.Namespace, b.Name \o "-" \o b.PVName>>

\* The command batch or object-store call the running call issued last
\* targets the brick paths, the volume name and the exposure-object name of
\* the claim of the call.
OwnTargets ==
    LET c == RunningClaim
        x == Last(log)
    IN /\ x.kind = "exec" =>
             \A n \in 1..Len(x.cmds) :
                \/ x.cmds[n] \in
                      { "gluster --mode=script volume start " \o c.PVName,
                        "gluster --mode=script volume stop " \o c.PVName
                           \o " force",
                        "gluster --mode=script volume delete " \o c.PVName }
                \/ /\ n = 1
                   /\ x.cmds[n] =
                        "gluster --mode=script volume create " \o c.PVName
                          \o " " \o CallType
                          \o SpecBrickArgs(CallRoots, c.Namespace, c.Name,
                                           c.PVName)
                          \o (IF CallForce THEN " force" ELSE "")
                \/ \E r \in BrickDirsOf(c) :
                      /\ r[1] = x.host
                      /\ x.cmds[n] \in
                           { "mkdir -p " \o r[2], "chmod 0771 " \o r[2],
                             "rm -rf " \o r[2],
                             "chown :" \o ToString(gid) \o " " \o r[2] }
       /\ x.kind \in {"create_endpoints", "create_service",
                       "delete_service"} =>
             Key(x.obj) = ExposureKeyOf(c)

\* A step of the running call, with the other call in flight, targets its
\* own brick paths, volume name and exposure-object name, and leaves what
\* belongs to the claim of the other call as it was.
StepKeepsApart ==
    /\ (log' # log /\ log' # <<>>) => OwnTargets'
    /\ Belongings(ParkedClaim)' = Belongings(ParkedClaim)

\* C20: two calls for claims that differ in (namespace, claim name) and in
\* volume name, run at the same time and interleaved in any way, do not
\* interfere: every command and object-store call of a call, its rollback
\* and teardown included, targets that call's own brick paths, volume name
\* and exposure-object name, and no step of a call creates, removes or
\* changes a brick directory, the volume or an exposure object of the claim
\* of the other call.
C20_NoInterference ==
    [][ (cur' = cur /\ BothInFlight /\ Differ(RunningClaim, ParkedClaim))
           => StepKeepsApart ]_vars

\* C20 as amended: the same, for claims that differ in (namespace, claim
\* name), in volume name and in their brick name, the claim name and the
\* volume name joined by "-" within the namespace.
C20_NoInterferenceOfDistinctBricks ==
    [][ (cur' = cur /\ BothInFlight
           /\ DifferInBrick(RunningClaim, ParkedClaim))
           => StepKeepsApart ]_vars

\* C20 witness: while the first call, a Delete of the provisioned volume of
\* the first claim, is parked in the middle of its teardown, the second
\* call, a Provision for the second claim, has failed at its last stage
\* and is rolling back: each has changed the state of the hosts.
C20_Witness ==
    /\ cur = 2
    /\ parked.entry = "Delete"
    /\ parked.pc = "deleteBricks"
    /\ entry = "Provision"
    /\ pc = "deleteBricks"
    /\ DifferInBrick(RunningClaim, ParkedClaim)
    /\ made # {}
    /\ Belongings(ParkedClaim).volume = "none"
    /\ Belongings(ParkedClaim).dirs # {}

\* Two Provisions at a time are reached too: both past their brick batches.
C20_TwoProvisionsReached ==
    /\ entry = "Provision"
    /\ parked.entry = "Provision"
    /\ pc = "createGlusterVolume"
    /\ parked.pc = "createEndpoints"
    /\ DifferInBrick(RunningClaim, ParkedClaim)
    /\ Len(cfg.BrickRootPaths) = 2

====
